---- MODULE Spec2Model ----
(* Model of src/src/satpam.ts: the Satpam token resolver.                    *)
(*                                                                           *)
(* JavaScript strings are sequences of one-character strings, '' is <<>>.    *)
(* The values undefined and null are the one-element sequences Undefined and *)
(* Null, whose element is longer than one character, so that they differ     *)
(* from every string and can still be compared with one.                     *)
EXTENDS Naturals, Sequences, FiniteSets

VARIABLES request, response, window, name, urlCheck, autoSetCookie,
          token, session, hook, calls, last

vars == <<request, response, window, name, urlCheck, autoSetCookie,
          token, session, hook, calls, last>>

(* ------------------------------------------------------------------------ *)
(* Bounds                                                                    *)
(* ------------------------------------------------------------------------ *)

\* verify calls that may be suspended at their hook at the same time
MaxInFlight == 2

\* key=value items in the query of a string URL
MaxPairs == 1

(* ------------------------------------------------------------------------ *)
(* JavaScript values                                                         *)
(* ------------------------------------------------------------------------ *)

Undefined == <<"undefined">>

Null == <<"null">>

IsString(v) == v /= Undefined /\ v /= Null

\* JavaScript truthiness of a string, undefined or null
Truthy(v) == IsString(v) /\ v /= <<>>

\* a ?? b
Coalesce(a, b) == IF a = Undefined \/ a = Null THEN b ELSE a

RECURSIVE SplitFrom(_, _, _, _)
SplitFrom(s, sep, i, cur) ==
    IF i > Len(s) THEN <<cur>>
    ELSE IF s[i] = sep THEN <<cur>> \o SplitFrom(s, sep, i + 1, <<>>)
    ELSE SplitFrom(s, sep, i + 1, Append(cur, s[i]))

\* String.prototype.split with a one-character separator
split(s, sep) == SplitFrom(s, sep, 1, <<>>)

\* String.prototype.includes with a one-character needle
includes(s, ch) == \E i \in 1..Len(s) : s[i] = ch

RECURSIVE Join(_, _)
Join(items, sep) ==
    IF Len(items) = 0 THEN <<>>
    ELSE IF Len(items) = 1 THEN items[1]
    ELSE items[1] \o <<sep>> \o Join(Tail(items), sep)

(* ------------------------------------------------------------------------ *)
(* External collaborators ./utility (parseCookies, serializeCookie)          *)
(* ------------------------------------------------------------------------ *)

CookieAttrs(opt) ==
    IF opt = "path" THEN <<";", " ", "P", "a", "t", "h", "=", "/">> ELSE <<>>

\* serializeCookie(name, value, options) -> "name=value[; attributes]"
serializeCookie(n, v, opt) == n \o <<"=">> \o v \o CookieAttrs(opt)

TrimLeft(s) == IF Len(s) > 0 /\ s[1] = " " THEN Tail(s) ELSE s

\* one "name=value" item of a Cookie header as the pair <<name, value>>
CookiePair(item) ==
    LET parts == split(TrimLeft(item), "=")
    IN  <<parts[1], IF Len(parts) >= 2 THEN Join(Tail(parts), "=") ELSE <<>>>>

\* parseCookies(headerValue) -> mapping, here the sequence of its pairs;
\* the empty mapping for an absent or empty header
parseCookies(header) ==
    IF header = Undefined \/ header = <<>> THEN <<>>
    ELSE LET items == split(header, ";")
         IN  [i \in 1..Len(items) |-> CookiePair(items[i])]

\* cookie[name]: the value of the first pair called key, undefined when none
CookieEntry(cookie, key) ==
    IF \E i \in 1..Len(cookie) : cookie[i][1] = key
    THEN LET i == CHOOSE j \in 1..Len(cookie) :
                      /\ cookie[j][1] = key
                      /\ \A k \in 1..(j - 1) : cookie[k][1] /= key
         IN  cookie[i][2]
    ELSE Undefined

(* ------------------------------------------------------------------------ *)
(* URL inspection                                                            *)
(* ------------------------------------------------------------------------ *)

\* val[1] of item.split('='): undefined when the item has no '='
PairValue(val) == IF Len(val) >= 2 THEN val[2] ELSE Undefined

\* parsed[key] of params.split('&').map(item => item.split('=')).reduce(...):
\* a later item with the same key overwrites an earlier one
ParsedEntry(params, key) ==
    LET items == split(params, "&")
        vals  == [i \in 1..Len(items) |-> split(items[i], "=")]
        hits  == {i \in 1..Len(items) : vals[i][1] = key}
    IN  IF hits = {} THEN Undefined
        ELSE PairValue(vals[CHOOSE i \in hits : \A j \in hits : j <= i])

\* _urlParamCheck(params): the token it hands to _processToken
urlParamCheck(params, key) ==
    IF Truthy(ParsedEntry(params, key)) THEN ParsedEntry(params, key) ELSE <<>>

\* const [_, queries] = url.split(sep), taken when url.includes(sep)
SecondPart(url, sep) ==
    LET parts == split(url, sep)
    IN  IF Len(parts) >= 2 THEN parts[2] ELSE Undefined

\* URLSearchParams.prototype.has
SearchParamsHas(queries, key) == \E i \in 1..Len(queries) : queries[i][1] = key

\* queries[key]: a property read on the URLSearchParams object, which keeps
\* its entries behind get(); no own or inherited property is called "t"
SearchParamsProperty(queries, key) == Undefined

\* !this.request.url
UrlFalsy(url) == url.kind = "absent" \/ (url.kind = "string" /\ url.href = <<>>)

\* verify, once the cookie has no usable entry and urlCheck is set:
\* the token handed to _processToken from the URL
UrlToken(url, key) ==
    IF UrlFalsy(url) THEN <<>>
    ELSE IF /\ url.kind = "string"
            /\ includes(url.href, "?")
            /\ SecondPart(url.href, "?") /= <<>>
         THEN urlParamCheck(SecondPart(url.href, "?"), key)
    ELSE IF /\ url.kind = "string"
            /\ includes(url.href, "#")
            /\ SecondPart(url.href, "#") /= <<>>
         THEN urlParamCheck(SecondPart(url.href, "#"), key)
    ELSE IF url.kind = "URL" /\ SearchParamsHas(url.searchParams, key)
         THEN SearchParamsProperty(url.searchParams, key)
    ELSE IF url.kind = "URL" /\ url.hash /= <<>>
         THEN urlParamCheck(url.hash, key)
    ELSE <<>>

\* a plausible slip: the URL parameter is looked at before the cookie
VerifyTokenUrlFirst(req, nm, key) ==
    LET entry == CookieEntry(parseCookies(req.headers.cookie), nm)
    IN  IF key /= <<>> /\ Truthy(UrlToken(req.url, key))
        THEN [token |-> UrlToken(req.url, key), urlRead |-> TRUE]
        ELSE IF Truthy(entry) THEN [token |-> entry, urlRead |-> key /= <<>>]
        ELSE [token |-> <<>>, urlRead |-> key /= <<>>]

\* verify up to its call of _processToken: the token handed over, and whether
\* this.request.url was read on the way
VerifyToken(req, nm, key) ==
    LET entry == CookieEntry(parseCookies(req.headers.cookie), nm)
    IN  IF Truthy(entry) THEN [token |-> entry, urlRead |-> FALSE]
        ELSE IF key = <<>> THEN [token |-> <<>>, urlRead |-> FALSE]
        ELSE [token |-> UrlToken(req.url, key), urlRead |-> TRUE]

(* ------------------------------------------------------------------------ *)
(* Construction: the requests, responses and options tried                   *)
(* ------------------------------------------------------------------------ *)

\* opt.name ?? 'satpam'
DefaultName == <<"s", "a", "t", "p", "a", "m">>

\* the Cookie header: absent, the configured cookie with a value, the
\* configured cookie with an empty value
CookieHeaders ==
    {Undefined, DefaultName \o <<"=", "c">>, DefaultName \o <<"=">>}

QueryItems == {<<"t", "=", "A">>, <<"x", "=", "1">>}

\* the text after '?': up to MaxPairs items joined by '&'
Queries ==
    {Join(items, "&") :
        items \in UNION {[1..n -> QueryItems] : n \in 0..MaxPairs}}

\* the text after '#'
Fragments == {<<>>, <<"t", "=", "B">>}

StringUrl(href) ==
    [kind |-> "string", href |-> href, searchParams |-> <<>>, hash |-> <<>>]

\* a URL instance: its searchParams entries, and its hash, which starts
\* with '#' unless it is empty
UrlObject(entries, hash) ==
    [kind |-> "URL", href |-> <<>>, searchParams |-> entries, hash |-> hash]

AbsentUrl ==
    [kind |-> "absent", href |-> <<>>, searchParams |-> <<>>, hash |-> <<>>]

Urls ==
    {AbsentUrl}
    \cup {StringUrl(<<"/", "p">> \o q \o f) :
            q \in {<<>>} \cup {<<"?">> \o x : x \in Queries},
            f \in {<<>>} \cup {<<"#">> \o x : x \in Fragments}}
    \cup {UrlObject(e, h) :
            e \in {<<>>, << <<<<"t">>, <<"V">>>> >>},
            h \in {<<>>, <<"#", "t", "=", "B">>,
                   <<"#", "x", "=", "1", "&", "t", "=", "B">>}}

Requests == [headers : [cookie : CookieHeaders], url : Urls]

\* response.headers: an object with a setHeader function, a Headers
\* instance, a plain object, or no object at all (client side)
HeaderKinds == {"setHeader", "Headers", "object", "none"}

\* what the constructor is given, and whether globalThis has a window:
\* every request with a server response that has setHeader, and every kind
\* of response, with and without a window, with the requests that have no URL
Constructions ==
    [req : Requests, res : {[headers |-> "setHeader"]}, window : {FALSE}]
    \cup [req : {r \in Requests : r.url = AbsentUrl},
          res : [headers : HeaderKinds], window : BOOLEAN]

(* ------------------------------------------------------------------------ *)
(* The instance                                                              *)
(* ------------------------------------------------------------------------ *)

Hooks == {"h1", "h2"}

\* verify's default for cb
NoHook == "null"

\* typeof this.hook === 'function'
IsFunction(h) == h \in Hooks

\* what a hook may give back: h1 nothing or "m", h2 '' or "n"
HookResults(h) ==
    IF h = "h1" THEN {Undefined, <<"m">>} ELSE {<<>>, <<"n">>}

\* the mutable fields of the instance
This == [token |-> token, session |-> session]

\* an operation's outcome: the instance after it, what it returned, and the
\* cookie writes it made
Outcome(self, ret, writes) == [self |-> self, ret |-> ret, writes |-> writes]

Write(path, cookieString) == [path |-> path, cookie |-> cookieString]

\* a plausible slip: the return after setHeader is missing, so the plain
\* property assignment runs as well
SetSessionNoReturn(self, arg, opt) ==
    LET tok == Coalesce(IF arg = Undefined THEN <<>> ELSE arg, self.token)
        cookieString == serializeCookie(Coalesce(name, DefaultName), tok, opt)
        stored == [self EXCEPT !.session = [status |-> TRUE, token |-> self.token]]
    IN  IF ~Truthy(tok) THEN Outcome(self, Undefined, <<>>)
        ELSE IF response.headers = "setHeader"
             THEN Outcome(stored, cookieString, <<Write("setHeader", cookieString),
                                               Write("assign", cookieString)>>)
        ELSE IF response.headers = "Headers"
             THEN Outcome(stored, cookieString, <<Write("set", cookieString)>>)
        ELSE IF response.headers = "object"
             THEN Outcome(stored, cookieString, <<Write("assign", cookieString)>>)
        ELSE Outcome(stored, cookieString, <<>>)

\* setSession(token = '', opt = {}); arg is Undefined when the token argument
\* is omitted, and the parameter default then makes it ''
setSession(self, arg, opt) ==
    LET tok == Coalesce(IF arg = Undefined THEN <<>> ELSE arg, self.token)
        cookieString == serializeCookie(Coalesce(name, DefaultName), tok, opt)
        stored == [self EXCEPT !.session = [status |-> TRUE, token |-> self.token]]
    IN  IF ~Truthy(tok) THEN Outcome(self, Undefined, <<>>)
        ELSE IF response.headers = "setHeader"
             THEN Outcome(stored, cookieString, <<Write("setHeader", cookieString)>>)
        ELSE IF response.headers = "Headers"
             THEN Outcome(stored, cookieString, <<Write("set", cookieString)>>)
        ELSE IF response.headers = "object"
             THEN Outcome(stored, cookieString, <<Write("assign", cookieString)>>)
        ELSE IF window
             THEN Outcome(stored, cookieString, <<Write("document", cookieString)>>)
        ELSE Outcome(stored, cookieString, <<>>)

\* a plausible slip: without autoSetCookie the session is returned but not stored
ProcessTokenDoneNoStore(self, tok) ==
    LET found == [self EXCEPT !.token = tok]
        set   == setSession(found, found.token, "none")
    IN  IF autoSetCookie
        THEN Outcome(set.self, set.self.session, set.writes)
        ELSE Outcome(found, [status |-> TRUE, token |-> found.token], <<>>)

\* _processToken from "this.token = ..." on: the found token is kept, written
\* back when autoSetCookie, and this.session is returned
ProcessTokenDone(self, tok) ==
    LET found == [self EXCEPT !.token = tok]
        set   == setSession(found, found.token, "none")
    IN  IF autoSetCookie
        THEN Outcome(set.self, set.self.session, set.writes)
        ELSE LET kept == [found EXCEPT
                            !.session = [status |-> TRUE, token |-> found.token]]
             IN  Outcome(kept, kept.session, <<>>)

\* _processToken('') after the hook, if any, gave result (Undefined: no hook)
ProcessTokenEmpty(self, result) ==
    IF IsString(result) /\ result /= <<>>
    THEN ProcessTokenDone(self, result)
    ELSE LET none == [self EXCEPT !.session = [status |-> FALSE, token |-> <<>>]]
         IN  Outcome(none, none.session, <<>>)

\* _processToken(tok), tok not '', after the hook, if any, gave result
ProcessTokenFound(self, tok, result) ==
    ProcessTokenDone(self, IF Truthy(result) THEN result ELSE tok)

\* _processToken(tok) from the hook's result to its return
processToken(self, tok, result) ==
    IF tok = <<>> THEN ProcessTokenEmpty(self, result)
    ELSE ProcessTokenFound(self, tok, result)

\* getSession()
getSession == session

(* ------------------------------------------------------------------------ *)
(* State machine                                                             *)
(* ------------------------------------------------------------------------ *)

Calls == 1..MaxInFlight

\* no session: what a call that has not returned holds as its return value
NoSession == [status |-> FALSE, token |-> Null]

IdleCall ==
    [pc |-> "idle", cb |-> NoHook, token |-> <<>>, urlRead |-> FALSE,
     result |-> Undefined, ret |-> NoSession, writes |-> <<>>,
     invoked |-> <<>>, raced |-> FALSE]

NoOp ==
    [op |-> "none", call |-> 0, arg |-> Undefined, opt |-> "none",
     ret |-> Undefined, session |-> NoSession, writes |-> <<>>,
     after |-> NoSession]

\* the constructor
Init ==
    /\ \E made \in Constructions :
          /\ request = made.req
          /\ response = made.res
          /\ window = made.window
    /\ name = Coalesce(Undefined, DefaultName)
    /\ urlCheck \in {<<>>, <<"t">>}
    /\ autoSetCookie \in BOOLEAN
    /\ token = Undefined
    /\ session = [status |-> FALSE, token |-> <<>>]
    /\ hook = "undefined"
    /\ calls = [c \in Calls |-> IdleCall]
    /\ last = NoOp

Apply(out) ==
    /\ token' = out.self.token
    /\ session' = out.self.session

Constructed == UNCHANGED <<request, response, window, name, urlCheck, autoSetCookie>>

Returned(c, out) ==
    [NoOp EXCEPT !.op = "verify", !.call = c, !.session = out.ret]

\* a call that has returned is forgotten when the next operation acts
Forget(cs) == [c \in Calls |-> IF cs[c].pc = "done" THEN IdleCall ELSE cs[c]]

\* verify(cb) run to its first suspension: to the hook's invocation when
\* there is a hook, to its return when there is none
CallVerify(c, cb) ==
    /\ calls[c].pc /= "await"
    /\ \A d \in Calls : d < c => calls[d].pc = "await"
    /\ hook' = cb
    /\ LET v == VerifyToken(request, name, urlCheck)
           started == [IdleCall EXCEPT !.cb = cb, !.token = v.token,
                                       !.urlRead = v.urlRead]
       IN  IF IsFunction(hook')
           THEN /\ calls' = [d \in Calls |->
                     IF d = c
                     THEN [started EXCEPT
                             !.pc = "await", !.invoked = <<hook'>>,
                             !.raced = \E e \in Calls :
                                 calls[e].pc = "await" /\ calls[e].cb /= cb]
                     ELSE IF calls[d].pc = "await" /\ calls[d].cb /= cb
                     THEN [calls[d] EXCEPT !.raced = TRUE]
                     ELSE Forget(calls)[d]]
                /\ UNCHANGED <<token, session, last>>
           ELSE LET out == processToken(This, v.token, Undefined)
                IN  /\ Apply(out)
                    /\ calls' = [Forget(calls) EXCEPT ![c] =
                          [started EXCEPT !.pc = "done", !.ret = out.ret,
                                          !.writes = out.writes]]
                    /\ last' = Returned(c, out)
    /\ Constructed

\* the awaited hook gives result: _processToken and verify run to their return
HookReturn(c, result) ==
    /\ calls[c].pc = "await"
    /\ result \in HookResults(calls[c].cb)
    /\ LET out == processToken(This, calls[c].token, result)
       IN  /\ Apply(out)
           /\ calls' = [Forget(calls) EXCEPT
                                     ![c].pc = "done", ![c].result = result,
                                     ![c].ret = out.ret, ![c].writes = out.writes]
           /\ last' = Returned(c, out)
    /\ UNCHANGED hook
    /\ Constructed

\* setSession(arg, opt) called from outside
CallSetSession(arg, opt) ==
    /\ LET out == setSession(This, arg, opt)
       IN  /\ Apply(out)
           /\ last' = [NoOp EXCEPT !.op = "setSession", !.arg = arg, !.opt = opt,
                                   !.ret = out.ret, !.writes = out.writes]
    /\ calls' = Forget(calls)
    /\ UNCHANGED hook
    /\ Constructed

\* getSession() called from outside
CallGetSession ==
    /\ last' = [NoOp EXCEPT !.op = "getSession", !.session = getSession,
                            !.after = IF last.op = "verify" THEN last.session
                                      ELSE NoSession]
    /\ /\ calls' = Forget(calls)
    /\ UNCHANGED <<token, session, hook>>
    /\ Constructed

\* the token arguments tried: omitted, null, '', a token
SessionArgs == {Undefined, Null, <<>>, <<"k">>}

CookieOptions == {"none", "path"}

\* one instance per request: no call is made while a verify is suspended
Sequential == \A c \in Calls : calls[c].pc /= "await"

Next ==
    \/ \E c \in Calls, cb \in Hooks \cup {NoHook} : Sequential /\ CallVerify(c, cb)
    \/ \E c \in Calls, r \in HookResults("h1") \cup HookResults("h2") :
            HookReturn(c, r)
    \/ \E arg \in SessionArgs, opt \in CookieOptions :
            Sequential /\ CallSetSession(arg, opt)
    \/ Sequential /\ CallGetSession

Spec == Init /\ [][Next]_vars

\* one instance shared by verify calls that overlap: a verify may start
\* while others are suspended at their hooks
NextShared ==
    \/ \E c \in Calls, cb \in Hooks \cup {NoHook} : CallVerify(c, cb)
    \/ \E c \in Calls, r \in HookResults("h1") \cup HookResults("h2") :
            HookReturn(c, r)

SpecShared == Init /\ [][NextShared]_vars

(* ------------------------------------------------------------------------ *)
(* What the claims speak of                                                  *)
(* ------------------------------------------------------------------------ *)

Done(c) == calls[c].pc = "done"

\* the call has handed a token to _processToken
Handed(c) == calls[c].pc /= "idle"

\* cookie[name] of the request
RequestCookie == CookieEntry(parseCookies(request.headers.cookie), name)

\* the parsed cookie mapping has an entry for the configured name
HasCookieEntry ==
    \E i \in 1..Len(parseCookies(request.headers.cookie)) :
        parseCookies(request.headers.cookie)[i][1] = name

\* the query of a URL string: the text between the first '?' and the
\* fragment, '' when there is no '?'
QueryOf(href) ==
    LET parts == split(split(href, "#")[1], "?")
    IN  IF Len(parts) >= 2 THEN Join(Tail(parts), "?") ELSE <<>>

\* the fragment of a URL string: the text after the first '#'
FragmentOf(href) ==
    LET parts == split(href, "#")
    IN  IF Len(parts) >= 2 THEN Join(Tail(parts), "#") ELSE <<>>

\* searchParams.get(key): the value of the first entry called key
SearchParamsGet(queries, key) ==
    LET i == CHOOSE j \in 1..Len(queries) :
                 /\ queries[j][1] = key
                 /\ \A k \in 1..(j - 1) : queries[k][1] /= key
    IN  queries[i][2]

Resolved(tok) == [status |-> TRUE, token |-> tok]

\* the tokens a call has of its own: its candidate, its hook's result, none
OwnTokens(c) == {calls[c].token, calls[c].result, <<>>}

\* C1: in every reachable state session.status is true exactly when
\* session.token is a non-empty string
C1_StatusIffToken == session.status <=> Truthy(session.token)

\* C2 as claimed: whenever the parsed cookie mapping has an entry for the
\* configured name, verify hands that entry's value to token processing and
\* does not read the URL
C2_CookieEntryPrecedence ==
    \A c \in Calls :
        (Handed(c) /\ HasCookieEntry) =>
            (calls[c].token = RequestCookie /\ ~calls[c].urlRead)

\* C2 amended: whenever the parsed cookie mapping has a non-empty value for
\* the configured name, verify hands that value to token processing and does
\* not read the URL, whatever urlCheck and the URL are
C2_CookieValuePrecedence ==
    \A c \in Calls :
        (Handed(c) /\ Truthy(RequestCookie)) =>
            (calls[c].token = RequestCookie /\ ~calls[c].urlRead)

\* a verify ran with a cookie value while urlCheck was set and the URL itself
\* carried a token
C2_Witness ==
    \E c \in Calls :
        /\ Done(c)
        /\ Truthy(RequestCookie)
        /\ urlCheck /= <<>>
        /\ Truthy(UrlToken(request.url, urlCheck))

\* C3: no cookie, urlCheck set, no hook, a string URL with urlCheck=A in its
\* query and urlCheck=B in its fragment: verify returns {status:true, token:A}
C3_QueryBeforeFragment ==
    \A c \in Calls :
        (/\ Done(c)
         /\ calls[c].cb = NoHook
         /\ ~HasCookieEntry
         /\ urlCheck /= <<>>
         /\ request.url.kind = "string"
         /\ Truthy(ParsedEntry(QueryOf(request.url.href), urlCheck))
         /\ Truthy(ParsedEntry(FragmentOf(request.url.href), urlCheck)))
        => calls[c].ret = Resolved(ParsedEntry(QueryOf(request.url.href), urlCheck))

\* C4: no cookie, urlCheck set, a string URL whose query is non-empty and has
\* no entry for urlCheck, and whose fragment has urlCheck=B: the token handed
\* to token processing is B
C4_FragmentFallback ==
    \A c \in Calls :
        (/\ Handed(c)
         /\ ~HasCookieEntry
         /\ urlCheck /= <<>>
         /\ request.url.kind = "string"
         /\ QueryOf(request.url.href) /= <<>>
         /\ ParsedEntry(QueryOf(request.url.href), urlCheck) = Undefined
         /\ Truthy(ParsedEntry(FragmentOf(request.url.href), urlCheck)))
        => calls[c].token = ParsedEntry(FragmentOf(request.url.href), urlCheck)

\* C5: no cookie, urlCheck set, a URL object whose searchParams have a
\* non-empty value V for urlCheck: the token handed to token processing is V,
\* and with no hook verify returns {status:true, token:V}
C5_UrlObjectQuery ==
    \A c \in Calls :
        (/\ Handed(c)
         /\ ~HasCookieEntry
         /\ urlCheck /= <<>>
         /\ request.url.kind = "URL"
         /\ SearchParamsHas(request.url.searchParams, urlCheck)
         /\ Truthy(SearchParamsGet(request.url.searchParams, urlCheck)))
        => /\ calls[c].token = SearchParamsGet(request.url.searchParams, urlCheck)
           /\ (Done(c) /\ calls[c].cb = NoHook) =>
                 calls[c].ret =
                    Resolved(SearchParamsGet(request.url.searchParams, urlCheck))

\* C6: after setSession(tok, opts) with a non-empty tok, the current session
\* is {status:true, token:tok}
C6_SetSessionStoresToken ==
    (last.op = "setSession" /\ Truthy(last.arg)) =>
        getSession = Resolved(last.arg)

\* C7: setSession with the token argument omitted, once verify has found a
\* non-empty token T, serializes (name, T, options), writes it to the
\* response's headers object and returns the cookie string
C7_SetSessionDefaultsToFound ==
    (last.op = "setSession" /\ last.arg = Undefined /\ Truthy(token)) =>
        /\ last.ret = serializeCookie(name, token, last.opt)
        /\ response.headers /= "none" => Len(last.writes) = 1

\* the one write of the call went to the response's headers and carries tok
OneHeaderWrite(writes, tok) ==
    /\ Len(writes) = 1
    /\ writes[1].path \in {"setHeader", "set", "assign"}
    /\ writes[1].cookie = serializeCookie(name, tok, "none")

\* verify found nothing, its hook gave a non-empty string, autoSetCookie is on
Minted(c) ==
    /\ Done(c)
    /\ RequestCookie = Undefined
    /\ calls[c].token = <<>>
    /\ IsFunction(calls[c].cb)
    /\ Truthy(calls[c].result)
    /\ autoSetCookie

C9_GetSessionIsReturned ==
    /\ last.op = "verify" => getSession = last.session
    /\ (last.op = "getSession" /\ last.after /= NoSession) =>
          last.session = last.after

\* getSession was called right after a verify whose hook replaced the token,
\* on an instance that had a session already
C9_Witness ==
    /\ last.op = "getSession"
    /\ last.after /= NoSession
    /\ last.after.status
    /\ last.after.token \notin {RequestCookie, Undefined}

\* C10: a verify call that overlapped one with a different hook invoked its
\* own hook, once, and the token of the session it returns is its own
\* candidate or its own hook's result (or '' when it resolved nothing)
C10_HookIsolation ==
    \A c \in Calls :
        (Done(c) /\ calls[c].raced) =>
            /\ calls[c].invoked = <<calls[c].cb>>
            /\ calls[c].ret.token \in OwnTokens(c)

====
